---- MODULE Spec2Model ----
(***************************************************************************)
(* Deferred diff entries of the EdenFS change-detection engine             *)
(* (eden/fs/inodes/DeferredDiffEntry.cpp).                                 *)
(*                                                                         *)
(* One diff run is modelled: a DiffContext, one ModifiedDiffEntry          *)
(* ("compare a live inode against snapshot entries") at path <<"p">> and   *)
(* one ModifiedBlobDiffEntry at the sibling path <<"q">>.  Every           *)
(* continuation of the ImmediateFuture chains is one action; the futures   *)
(* the entries await (inode resolution, getTree, isSameAs, areBlobsEqual,  *)
(* the delegated differs) complete in any order, successfully or not.      *)
(***************************************************************************)
EXTENDS Integers, Sequences, FiniteSets, TLC

\* Largest number of candidate snapshot entries handed to createModifiedEntry.
MaxCandidates == 2

\* Largest number of subscriptionEffect calls.
MaxSubscriptions == 2

\* Largest number of server messages dispatched to the client.
MaxEvents == 2

\* Largest number of client commands run against the LFS servers.
MaxCommands == 3

(***************************************************************************)
(* Value types                                                             *)
(***************************************************************************)
TreeIds == {"T1", "T2"}
BlobIds == {"B1", "B2"}
NoId == "none"

TreeEntryTypes == {"TREE", "REGULAR_FILE", "EXECUTABLE_FILE", "SYMLINK"}

\* The snapshot entries a caller hands over: a TREE entry names a tree, a
\* file or symlink entry names a blob.
TreeEntry ==
  [type : {"TREE"}, id : TreeIds]
    \cup [type : {"REGULAR_FILE", "SYMLINK"}, id : BlobIds]

isTree(e) == e.type = "TREE"

getObjectId(e) == e.id

getDtype(e) ==
  CASE e.type = "TREE" -> "Dir"
    [] e.type = "SYMLINK" -> "Symlink"
    [] OTHER -> "Regular"

\* The snapshot trees of the object store, entries sorted by name.
TreeContents(id) ==
  CASE id = "T1" -> << [name |-> "f", type |-> "REGULAR_FILE", id |-> "B1"] >>
    [] id = "T3" -> << [name |-> "d", type |-> "REGULAR_FILE", id |-> "B1"],
                       [name |-> "f", type |-> "SYMLINK", id |-> "B2"] >>
    [] id = "T4" -> << [name |-> "d", type |-> "TREE", id |-> "T2"] >>
    [] OTHER -> << [name |-> "d", type |-> "TREE", id |-> "T1"],
                   [name |-> "f", type |-> "SYMLINK", id |-> "B2"] >>

\* The trees the source-control-only entries are created for.
ScmTreeIds == TreeIds \cup {"T3", "T4"}

\* Live inodes: a FileInode or a TreeInode.  An unmaterialized TreeInode
\* carries the id of the tree it was loaded from; a materialized one has none.
FileInodes ==
  [kind : {"file"}, type : TreeEntryTypes \ {"TREE"}, materialized : {FALSE},
   id : BlobIds]

TreeInodes ==
  [kind : {"tree"}, type : {"TREE"}, materialized : {FALSE}, id : TreeIds]
    \cup [kind : {"tree"}, type : {"TREE"}, materialized : {TRUE}, id : {NoId}]

Inodes == FileInodes \cup TreeInodes

NoInode == [kind |-> "none", type |-> "none", materialized |-> FALSE, id |-> NoId]

\* InodeBase::getType(): the dtype_t of the live inode.
getType(i) == getDtype(i)

IgnoreStacks == {"nullptr", "ignoreStack"}

\* The subscription kinds that write the modelled atoms; a subscriptionID of
\* 0 stands for the empty string no subscription has.
SubscriptionKind == {"smartlogCommits", "uncommittedChanges"}

\* T | undefined: the empty sequence is undefined, << x >> is the value x.
Undefined == << >>

Some(x) == << x >>

\* Result<T>: either a value or an error.
UncommittedChangesResults ==
  {[value |-> Some(<< >>), error |-> Undefined],
   [value |-> Some(<< "a" >>), error |-> Undefined],
   [value |-> Undefined, error |-> Some("Error")]}

SmartlogCommitsResults ==
  {[value |-> Some(<< >>), error |-> Undefined],
   [value |-> Some(<< "c" >>), error |-> Undefined],
   [value |-> Undefined, error |-> Some("Error")]}

NoData == [value |-> Undefined, error |-> Undefined]

NoEvent == [type |-> "none", kind |-> "none", subscriptionID |-> 0,
            data |-> NoData]

\* The two payloads the client sends and the object ids their contents hash
\* to (2 KiB of "A\n" and of "B\n").
Contents == {"A", "B"}

Absent == "absent"

Sha256(content) == IF content = "A" THEN "ab02c2a1" ELSE "a1bcf2c9"

Oids == {Sha256(c) : c \in Contents}

SeqsUpTo(S, n) == UNION {[1..k -> S] : k \in 0..n}

PathP == <<"p">>
PathQ == <<"q">>
PathU == <<"u">>
PathS == <<"s">>

VARIABLES
  listIgnored,             \* DiffContext::listIgnored
  windowsSymlinksEnabled,  \* DiffContext::getWindowsSymlinksEnabled()
  pc,                      \* where the ModifiedDiffEntry is
  result,                  \* what its run() future resolved to
  scmEntries_,
  ignore_,
  isIgnored_,
  inode,                   \* the value inodeFuture_ produced
  fetches,                 \* state of the getTree future of each candidate
  calls,                   \* calls the entries made to their collaborators
  events,                  \* the DiffCallback invocations, in order
  crashed,                 \* an XCHECK failed: the process aborted
  blobPc,                  \* where the ModifiedBlobDiffEntry is
  blobResult,
  scmEntry_,
  currentBlobId_,
  currentDType_,
  blobsEqual,              \* what ObjectStore::areBlobsEqual answered
  lockOps,                 \* contents lock operations and asynchronous calls
                           \* of runForScmTree, in program order
  untrackedPc,             \* where the UntrackedDiffEntry is
  untrackedResult,
  untrackedIgnore_,        \* UntrackedDiffEntry::ignore_
  untrackedIsIgnored_,     \* UntrackedDiffEntry::isIgnored_
  untrackedInode,          \* the value its inodeFuture_ produced
  scmKind,                 \* which source-control-only entry exists
  scmPc,
  scmResult,
  scmId_,
  wdId_,
  subscriptions,           \* one record per subscriptionEffect call; the
                           \* subscriptionID is the index
  mostRecentSubscriptionIds,
  posted,                  \* serverAPI.postMessage calls, in order
  event,                   \* the server message dispatched last
  received,                \* how many server messages were dispatched
  delivered,               \* the subscriptions whose onData ran for it
  latestUncommittedChangesData,
  latestCommitsData,
  isFetchingCommits,
  isFetchingUncommittedChanges,
  lfs_proxy,               \* objects stored by the proxy LFS server
  lfs_upstream,            \* objects stored by the upstream LFS server
  log_proxy,               \* requests the proxy served, in order
  log_upstream,
  command,                 \* the client command run last
  commandCount

ctxVars == <<listIgnored, windowsSymlinksEnabled>>
entryVars == <<pc, result, scmEntries_, ignore_, isIgnored_, inode, fetches,
               lockOps>>
blobVars == <<blobPc, blobResult, scmEntry_, currentBlobId_, currentDType_,
              blobsEqual>>
untrackedVars == <<untrackedPc, untrackedResult, untrackedIgnore_,
                   untrackedIsIgnored_, untrackedInode>>
scmVars == <<scmKind, scmPc, scmResult, scmId_, wdId_>>
islVars == <<subscriptions, mostRecentSubscriptionIds, posted, event, received,
             delivered,
             latestUncommittedChangesData, latestCommitsData,
             isFetchingCommits, isFetchingUncommittedChanges>>
lfsVars == <<lfs_proxy, lfs_upstream, log_proxy, log_upstream, command,
             commandCount>>
otherVars == <<untrackedVars, scmVars, islVars, lfsVars>>
vars == <<ctxVars, entryVars, blobVars, otherVars, calls, events, crashed>>

(***************************************************************************)
(* Collaborators                                                           *)
(***************************************************************************)
Event(kind, path, dtype) == [kind |-> kind, path |-> path, dtype |-> dtype]

Call(fn, by, a, b, trees, ignore, isIgnored) ==
  [fn |-> fn, by |-> by, a |-> a, b |-> b, trees |-> trees,
   ignore |-> ignore, isIgnored |-> isIgnored]

\* A symlink entry is compared and reported as a regular file on a
\* configuration without symlink support.  (Where the platform supports
\* symlinks natively the filter is the identity, as with the flag set.)
filteredEntryType(ft, symlinksEnabled) ==
  IF ft = "SYMLINK" /\ ~symlinksEnabled THEN "REGULAR_FILE" ELSE ft

filteredEntryDtype(dt, symlinksEnabled) ==
  IF dt = "Symlink" /\ ~symlinksEnabled THEN "Regular" ELSE dt

\* ObjectStore::areObjectsKnownIdentical: the no-fetch identity oracle.
areObjectsKnownIdentical(a, b) == a = b

\* FileInode::isSameAs(id, entryType): same content address and same type.
isSameAs(fileInode, id, entryType) ==
  fileInode.id = id /\ fileInode.type = entryType

Names == <<"d", "f">>

Find(tree, name) ==
  LET hits == {i \in 1..Len(tree) : tree[i].name = name}
  IN IF hits = {} THEN 0 ELSE CHOOSE i \in hits : TRUE

\* diffRemovedTree / diffAddedTree: every path below `path` is reported.
RECURSIVE WholeTreeEvents(_, _, _, _)
WholeTreeEvents(kind, path, tree, i) ==
  IF i > Len(tree) THEN << >>
  ELSE LET e == tree[i]
           child == Append(path, e.name)
       IN << Event(kind, child, getDtype(e)) >>
            \o (IF isTree(e)
                  THEN WholeTreeEvents(kind, child, TreeContents(e.id), 1)
                  ELSE << >>)
            \o WholeTreeEvents(kind, path, tree, i + 1)

diffRemovedTree(path, scmId) == WholeTreeEvents("removed", path, TreeContents(scmId), 1)

diffAddedTree(path, wdId) == WholeTreeEvents("added", path, TreeContents(wdId), 1)

\* diffTrees: the pure tree-vs-tree differ.
RECURSIVE DiffTreesFrom(_, _, _, _)
diffTrees(path, scmId, wdId) ==
  IF scmId = wdId THEN << >> ELSE DiffTreesFrom(path, scmId, wdId, 1)

DiffTreesFrom(path, scmId, wdId, n) ==
  IF n > Len(Names) THEN << >>
  ELSE
    LET scm == TreeContents(scmId)
        wd == TreeContents(wdId)
        si == Find(scm, Names[n])
        wi == Find(wd, Names[n])
        child == Append(path, Names[n])
        gone(e) == << Event("removed", child, getDtype(e)) >>
                     \o (IF isTree(e) THEN diffRemovedTree(child, e.id) ELSE << >>)
        new(e) == << Event("added", child, getDtype(e)) >>
                    \o (IF isTree(e) THEN diffAddedTree(child, e.id) ELSE << >>)
        here ==
          CASE si = 0 /\ wi = 0 -> << >>
            [] si # 0 /\ wi = 0 -> gone(scm[si])
            [] si = 0 /\ wi # 0 -> new(wd[wi])
            [] OTHER ->
                 LET s == scm[si]
                     w == wd[wi]
                 IN CASE isTree(s) /\ isTree(w) -> diffTrees(child, s.id, w.id)
                      [] isTree(s) # isTree(w) -> gone(s) \o new(w)
                      [] OTHER ->
                           IF s.id = w.id /\ s.type = w.type THEN << >>
                           ELSE << Event("modified", child, getDtype(w)) >>
    IN here \o DiffTreesFrom(path, scmId, wdId, n + 1)

(***************************************************************************)
(* The diff run                                                            *)
(***************************************************************************)
Init ==
  /\ listIgnored \in BOOLEAN
  /\ windowsSymlinksEnabled \in BOOLEAN
  /\ pc = "none"
  /\ result = "pending"
  /\ scmEntries_ = << >>
  /\ ignore_ = "nullptr"
  /\ isIgnored_ = FALSE
  /\ inode = NoInode
  /\ fetches = << >>
  /\ calls = << >>
  /\ events = << >>
  /\ crashed = FALSE
  /\ blobPc = "none"
  /\ blobResult = "pending"
  /\ scmEntry_ = [type |-> "REGULAR_FILE", id |-> "B1"]
  /\ currentBlobId_ = NoId
  /\ currentDType_ = "Regular"
  /\ blobsEqual = "unknown"
  /\ lockOps = << >>
  /\ untrackedPc = "none"
  /\ untrackedResult = "pending"
  /\ untrackedIgnore_ = "nullptr"
  /\ untrackedIsIgnored_ = FALSE
  /\ untrackedInode = NoInode
  /\ scmKind = "none"
  /\ scmPc = "none"
  /\ scmResult = "pending"
  /\ scmId_ = NoId
  /\ wdId_ = NoId
  /\ subscriptions = << >>
  /\ mostRecentSubscriptionIds = [k \in SubscriptionKind |-> 0]
  /\ posted = << >>
  /\ event = NoEvent
  /\ received = 0
  /\ delivered = {}
  /\ latestUncommittedChangesData = [files |-> << >>, error |-> Undefined]
  /\ latestCommitsData = [commits |-> << >>, error |-> Undefined]
  /\ isFetchingCommits = FALSE
  /\ isFetchingUncommittedChanges = FALSE
  /\ lfs_proxy = [oid \in Oids |-> Absent]
  /\ lfs_upstream = [oid \in Oids |-> Absent]
  /\ log_proxy = << >>
  /\ log_upstream = << >>
  /\ command = [name |-> "none", server |-> "none", oid |-> "none",
                content |-> Absent]
  /\ commandCount = 0

\* The XCHECK compiled out.
HasValuesUnchecked(scmEntries) == TRUE

\* XCHECK_GT(scmEntries.size(), 0ull)
HasValues(scmEntries) == Len(scmEntries) > 0

\* DeferredDiffEntry::createModifiedEntry and the ModifiedDiffEntry
\* constructor: a failed XCHECK aborts the process, no entry exists.
createModifiedEntry ==
  /\ pc = "none"
  /\ ~crashed
  /\ \E scmEntries \in SeqsUpTo(TreeEntry, MaxCandidates),
        ignore \in IgnoreStacks, isIgnored \in BOOLEAN :
        IF HasValues(scmEntries)
          THEN /\ pc' = "created"
               /\ scmEntries_' = scmEntries
               /\ ignore_' = ignore
               /\ isIgnored_' = isIgnored
               /\ UNCHANGED crashed
          ELSE /\ crashed' = TRUE
               /\ UNCHANGED <<pc, scmEntries_, ignore_, isIgnored_>>
  /\ UNCHANGED <<ctxVars, blobVars, otherVars, lockOps, result, inode, fetches, calls, events>>

\* ModifiedDiffEntry::run: chains the continuation on inodeFuture_.
run ==
  /\ pc = "created"
  /\ ~crashed
  /\ pc' = "awaitInode"
  /\ UNCHANGED <<ctxVars, blobVars, otherVars, lockOps, result, scmEntries_, ignore_, isIgnored_,
                 inode, fetches, calls, events, crashed>>

\* inodeFuture_ completed with an exception: thenValue is skipped.
inodeFailed ==
  /\ pc = "awaitInode"
  /\ ~crashed
  /\ pc' = "finished"
  /\ result' = "inodeError"
  /\ UNCHANGED <<ctxVars, blobVars, otherVars, lockOps, scmEntries_, ignore_, isIgnored_, inode,
                 fetches, calls, events, crashed>>

\* untrackedFileEvents with the else lost: an ignored file is also added.
untrackedFileEventsNoElse(i) ==
  (IF isIgnored_ /\ listIgnored
     THEN << Event("ignored", PathP, getType(i)) >> ELSE << >>)
    \o << Event("added", PathP, getType(i)) >>

\* untrackedFileEvents with the listIgnored test lost.
untrackedFileEventsAlwaysListed(i) ==
  IF isIgnored_
    THEN << Event("ignored", PathP, getType(i)) >>
    ELSE << Event("added", PathP, getType(i)) >>

\* The added/ignored report of the directory --> file case.
untrackedFileEvents(i) ==
  IF isIgnored_
    THEN IF listIgnored THEN << Event("ignored", PathP, getType(i)) >> ELSE << >>
    ELSE << Event("added", PathP, getType(i)) >>

\* firstEntry reading the last candidate instead of scmEntries_[0].
lastEntry == scmEntries_[Len(scmEntries_)]

\* The candidate a shape change and a file comparison are judged against.
firstEntry == scmEntries_[1]

\* matchesAnyEntry comparing with the first candidate only.
matchesFirstEntry(treeId) ==
  areObjectsKnownIdentical(treeId, getObjectId(scmEntries_[1]))

\* Does the unmaterialized directory match one of the candidates?
matchesAnyEntry(treeId) ==
  \E k \in 1..Len(scmEntries_) :
    areObjectsKnownIdentical(treeId, getObjectId(scmEntries_[k]))

\* treeReplacedByFile reporting the removal before the untracked file.
treeReplacedByFileRemovedFirst(i) ==
  /\ events' = events \o << Event("removed", PathP, getDtype(firstEntry)) >>
                  \o untrackedFileEvents(i)
  /\ calls' = Append(calls,
       Call("diffRemovedTree", PathP, getObjectId(firstEntry), NoId,
            << >>, "nullptr", FALSE))
  /\ lockOps' = << "diffRemovedTree" >>
  /\ pc' = "awaitDiff"
  /\ UNCHANGED <<result, fetches>>

\* treeReplacedByFile dropping the future of diffRemovedTree: the entry
\* resolves while the removed tree is still being reported.
treeReplacedByFileDetached(i) ==
  /\ events' = events \o untrackedFileEvents(i)
                  \o << Event("removed", PathP, getDtype(firstEntry)) >>
  /\ calls' = Append(calls,
       Call("diffRemovedTree", PathP, getObjectId(firstEntry), NoId,
            << >>, "nullptr", FALSE))
  /\ lockOps' = << "diffRemovedTree" >>
  /\ pc' = "awaitDiff"
  /\ result' = "unit"
  /\ UNCHANGED fetches

\* A Tree in source control, a file or symlink on disk: the live path is
\* reported as untracked and the tree's paths as removed.
treeReplacedByFile(i) ==
  /\ events' = events \o untrackedFileEvents(i)
                  \o << Event("removed", PathP, getDtype(firstEntry)) >>
  /\ calls' = Append(calls,
       Call("diffRemovedTree", PathP, getObjectId(firstEntry), NoId,
            << >>, "nullptr", FALSE))
  /\ lockOps' = << "diffRemovedTree" >>
  /\ pc' = "awaitDiff"
  /\ UNCHANGED <<result, fetches>>

\* unmaterializedTree without the coarse modified report.
unmaterializedTreeSilent(i) ==
  IF matchesAnyEntry(i.id)
    THEN /\ lockOps' = << "wlock", "unlock" >>
         /\ pc' = "finished"
         /\ result' = "unit"
         /\ UNCHANGED <<events, calls, fetches>>
    ELSE /\ calls' = Append(calls,
              Call("diffTrees", PathP, getObjectId(firstEntry), i.id,
                   << >>, "nullptr", FALSE))
         /\ lockOps' = << "wlock", "unlock", "diffTrees" >>
         /\ pc' = "awaitDiff"
         /\ UNCHANGED <<result, fetches, events>>

\* unmaterializedTree without contents.unlock(): the lock is released only
\* when the LockedPtr goes out of scope, after diffTrees was called.
unmaterializedTreeScopedUnlock(i) ==
  IF matchesAnyEntry(i.id)
    THEN /\ lockOps' = << "wlock", "unlock" >>
         /\ pc' = "finished"
         /\ result' = "unit"
         /\ UNCHANGED <<events, calls, fetches>>
    ELSE /\ events' = Append(events,
              Event("modified", PathP, getDtype(firstEntry)))
         /\ calls' = Append(calls,
              Call("diffTrees", PathP, getObjectId(firstEntry), i.id,
                   << >>, "nullptr", FALSE))
         /\ lockOps' = << "wlock", "diffTrees", "unlock" >>
         /\ pc' = "awaitDiff"
         /\ UNCHANGED <<result, fetches>>

\* An unmaterialized directory: unchanged if it matches a candidate,
\* otherwise diffed as a tree against the first candidate.
unmaterializedTree(i) ==
  IF matchesAnyEntry(i.id)
    THEN /\ lockOps' = << "wlock", "unlock" >>
         /\ pc' = "finished"
         /\ result' = "unit"
         /\ UNCHANGED <<events, calls, fetches>>
    ELSE /\ events' = Append(events,
              Event("modified", PathP, getDtype(firstEntry)))
         /\ calls' = Append(calls,
              Call("diffTrees", PathP, getObjectId(firstEntry), i.id,
                   << >>, "nullptr", FALSE))
         /\ lockOps' = << "wlock", "unlock", "diffTrees" >>
         /\ pc' = "awaitDiff"
         /\ UNCHANGED <<result, fetches>>

\* loadTrees reporting the directory as modified before it is compared.
loadTreesReporting ==
  /\ fetches' = [k \in 1..Len(scmEntries_) |-> "pending"]
  /\ calls' = calls \o
       [k \in 1..Len(scmEntries_) |->
          Call("getTree", PathP, getObjectId(scmEntries_[k]), NoId,
               << >>, "nullptr", FALSE)]
  /\ events' = Append(events, Event("modified", PathP, getDtype(firstEntry)))
  /\ lockOps' = << "wlock", "unlock" >>
                  \o [k \in 1..Len(scmEntries_) |-> "getTree"]
  /\ pc' = "awaitFetches"
  /\ UNCHANGED result

\* Possibly modified directory: one getTree per candidate, all issued
\* before any of them is awaited.
loadTrees ==
  /\ fetches' = [k \in 1..Len(scmEntries_) |-> "pending"]
  /\ calls' = calls \o
       [k \in 1..Len(scmEntries_) |->
          Call("getTree", PathP, getObjectId(scmEntries_[k]), NoId,
               << >>, "nullptr", FALSE)]
  /\ lockOps' = << "wlock", "unlock" >>
                  \o [k \in 1..Len(scmEntries_) |-> "getTree"]
  /\ pc' = "awaitFetches"
  /\ UNCHANGED <<result, events>>

runForScmTree(i) ==
  /\ HasValues(scmEntries_)
  /\ IF i.kind # "tree"
       THEN treeReplacedByFile(i)
       ELSE IF ~i.materialized THEN unmaterializedTree(i) ELSE loadTrees

\* fileReplacedByTree treating the shape change as a bug, the way
\* UntrackedDiffEntry treats a non-directory.
fileReplacedByTreeRejected(i) ==
  /\ pc' = "finished"
  /\ result' = "bug"
  /\ UNCHANGED <<events, calls, fetches>>

\* A file in source control, a directory on disk: the file is reported
\* removed, the directory added, and the directory is diffed as untracked.
fileReplacedByTree(i) ==
  /\ events' = events \o
       << Event("removed", PathP,
                filteredEntryDtype(getDtype(firstEntry), windowsSymlinksEnabled)),
          Event("added", PathP, getType(i)) >>
  /\ IF isIgnored_ /\ ~listIgnored
       THEN /\ pc' = "finished"
            /\ result' = "unit"
            /\ UNCHANGED calls
       ELSE /\ calls' = Append(calls,
                 Call("TreeInode::diff", PathP, NoId, NoId, << >>,
                      ignore_, isIgnored_))
            /\ pc' = "awaitDiff"
            /\ UNCHANGED result
  /\ UNCHANGED fetches

\* File against file: ask the live file whether it is the first candidate.
compareFile ==
  /\ calls' = Append(calls,
       Call("isSameAs", PathP, getObjectId(firstEntry),
            filteredEntryType(firstEntry.type, windowsSymlinksEnabled),
            << >>, "nullptr", FALSE))
  /\ pc' = "awaitIsSame"
  /\ UNCHANGED <<result, events, fetches>>

runForScmBlob(i) ==
  /\ HasValues(scmEntries_)
  /\ IF i.kind # "file" THEN fileReplacedByTree(i) ELSE compareFile
  /\ UNCHANGED lockOps

\* The continuation of run(): dispatch on the first candidate's kind.
inodeReady ==
  /\ pc = "awaitInode"
  /\ ~crashed
  /\ \E i \in Inodes :
       /\ inode' = i
       /\ IF isTree(scmEntries_[1]) THEN runForScmTree(i) ELSE runForScmBlob(i)
  /\ UNCHANGED <<ctxVars, blobVars, otherVars, scmEntries_, ignore_, isIgnored_, crashed>>

\* isSameReady coalescing with the previous report: a modified report that
\* directly follows another modified report is dropped.
isSameReadyCoalescing ==
  /\ pc = "awaitIsSame"
  /\ ~crashed
  /\ LET isSame == isSameAs(inode, getObjectId(firstEntry),
                            filteredEntryType(firstEntry.type,
                                              windowsSymlinksEnabled))
         last == IF events = << >> THEN "none" ELSE events[Len(events)].kind
     IN events' = IF ~isSame /\ last # "modified"
                    THEN Append(events, Event("modified", PathP, getType(inode)))
                    ELSE events
  /\ pc' = "finished"
  /\ result' = "unit"
  /\ UNCHANGED <<ctxVars, blobVars, otherVars, lockOps, scmEntries_, ignore_,
                 isIgnored_, inode, fetches, calls, crashed>>

\* FileInode::isSameAs answered: modified is reported on a mismatch.
isSameReady ==
  /\ pc = "awaitIsSame"
  /\ ~crashed
  /\ LET isSame == isSameAs(inode, getObjectId(firstEntry),
                            filteredEntryType(firstEntry.type,
                                              windowsSymlinksEnabled))
     IN events' = IF ~isSame
                    THEN Append(events, Event("modified", PathP, getType(inode)))
                    ELSE events
  /\ pc' = "finished"
  /\ result' = "unit"
  /\ UNCHANGED <<ctxVars, blobVars, otherVars, lockOps, scmEntries_, ignore_, isIgnored_, inode,
                 fetches, calls, crashed>>

isSameFailed ==
  /\ pc = "awaitIsSame"
  /\ ~crashed
  /\ pc' = "finished"
  /\ result' = "isSameError"
  /\ UNCHANGED <<ctxVars, blobVars, otherVars, lockOps, scmEntries_, ignore_, isIgnored_, inode,
                 fetches, calls, events, crashed>>

\* ObjectStore::getTree of candidate k completed with the tree of that id.
getTreeReady(k) ==
  /\ pc = "awaitFetches"
  /\ ~crashed
  /\ fetches[k] = "pending"
  /\ getObjectId(scmEntries_[k]) \in TreeIds
  /\ fetches' = [fetches EXCEPT ![k] = getObjectId(scmEntries_[k])]
  /\ UNCHANGED <<ctxVars, blobVars, otherVars, lockOps, pc, result, scmEntries_, ignore_,
                 isIgnored_, inode, calls, events, crashed>>

\* getTreeFailed fetching the tree again instead of failing.
getTreeRetried(k) ==
  /\ pc = "awaitFetches"
  /\ ~crashed
  /\ fetches[k] = "pending"
  /\ calls' = Append(calls,
       Call("getTree", PathP, getObjectId(scmEntries_[k]), NoId,
            << >>, "nullptr", FALSE))
  /\ UNCHANGED <<ctxVars, blobVars, otherVars, lockOps, pc, result, scmEntries_, ignore_,
                 isIgnored_, inode, fetches, events, crashed>>

getTreeFailed(k) ==
  /\ pc = "awaitFetches"
  /\ ~crashed
  /\ fetches[k] = "pending"
  /\ fetches' = [fetches EXCEPT ![k] = "failed"]
  /\ UNCHANGED <<ctxVars, blobVars, otherVars, lockOps, pc, result, scmEntries_, ignore_,
                 isIgnored_, inode, calls, events, crashed>>

\* collectAllSafe continuing as soon as the first fetch completed.
collectFirst ==
  /\ pc = "awaitFetches"
  /\ ~crashed
  /\ \E k \in 1..Len(fetches) : fetches[k] # "pending"
  /\ IF \E k \in 1..Len(fetches) : fetches[k] = "failed"
       THEN /\ pc' = "finished"
            /\ result' = "getTreeError"
            /\ UNCHANGED calls
       ELSE /\ calls' = Append(calls,
                 Call("TreeInode::diff", PathP, NoId, NoId, fetches,
                      ignore_, isIgnored_))
            /\ pc' = "awaitDiff"
            /\ UNCHANGED result
  /\ UNCHANGED <<ctxVars, blobVars, otherVars, lockOps, scmEntries_, ignore_, isIgnored_, inode,
                 fetches, events, crashed>>

\* collectAllSafe(fetches).thenValue(...): runs once every fetch completed.
collectAllSafe ==
  /\ pc = "awaitFetches"
  /\ ~crashed
  /\ \A k \in 1..Len(fetches) : fetches[k] # "pending"
  /\ IF \E k \in 1..Len(fetches) : fetches[k] = "failed"
       THEN /\ pc' = "finished"
            /\ result' = "getTreeError"
            /\ UNCHANGED calls
       ELSE /\ calls' = Append(calls,
                 Call("TreeInode::diff", PathP, NoId, NoId, fetches,
                      ignore_, isIgnored_))
            /\ pc' = "awaitDiff"
            /\ UNCHANGED result
  /\ UNCHANGED <<ctxVars, blobVars, otherVars, lockOps, scmEntries_, ignore_, isIgnored_, inode,
                 fetches, events, crashed>>

Delegates == {"diffRemovedTree", "diffTrees", "TreeInode::diff"}

\* The differ the entry handed its path to.
delegatedCall ==
  LET k == CHOOSE k \in 1..Len(calls) :
             calls[k].by = PathP /\ calls[k].fn \in Delegates
  IN calls[k]

\* What the delegated differ reports.  TreeInode::diff is the directory
\* comparison of the orchestrator; its reports below the path are not modelled.
delegatedEvents(c) ==
  CASE c.fn = "diffRemovedTree" -> diffRemovedTree(c.by, c.a)
    [] c.fn = "diffTrees" -> diffTrees(c.by, c.a, c.b)
    [] OTHER -> << >>

diffReady ==
  /\ pc = "awaitDiff"
  /\ ~crashed
  /\ events' = events \o delegatedEvents(delegatedCall)
  /\ pc' = "finished"
  /\ result' = "unit"
  /\ UNCHANGED <<ctxVars, blobVars, otherVars, lockOps, scmEntries_, ignore_, isIgnored_, inode,
                 fetches, calls, crashed>>

\* The delegated differ failed after reporting some of its paths.
diffFailed ==
  /\ pc = "awaitDiff"
  /\ ~crashed
  /\ \E n \in 0..Len(delegatedEvents(delegatedCall)) :
       events' = events \o SubSeq(delegatedEvents(delegatedCall), 1, n)
  /\ pc' = "finished"
  /\ result' = "diffError"
  /\ UNCHANGED <<ctxVars, blobVars, otherVars, lockOps, scmEntries_, ignore_, isIgnored_, inode,
                 fetches, calls, crashed>>

(***************************************************************************)
(* ModifiedBlobDiffEntry at the sibling path                               *)
(***************************************************************************)
\* DeferredDiffEntry::createModifiedEntry for a blob and the
\* ModifiedBlobDiffEntry constructor, the arguments drawn from the given sets.
createModifiedBlobEntryOf(scmEntries, currentBlobIds, currentDTypes) ==
  /\ blobPc = "none"
  /\ ~crashed
  /\ \E scmEntry \in scmEntries,
        currentBlobId \in currentBlobIds, currentDType \in currentDTypes :
        /\ scmEntry_' = scmEntry
        /\ currentBlobId_' = currentBlobId
        /\ currentDType_' = currentDType
  /\ blobPc' = "created"
  /\ UNCHANGED <<ctxVars, entryVars, otherVars, blobResult, blobsEqual, calls,
                 events, crashed>>

\* The sibling of the ModifiedDiffEntry: a regular file whose live blob is B1.
createModifiedBlobEntry ==
  createModifiedBlobEntryOf([type : {"REGULAR_FILE"}, id : BlobIds],
                            {"B1"}, {"Regular"})

\* ModifiedBlobDiffEntry::run
blobRun ==
  /\ blobPc = "created"
  /\ ~crashed
  /\ calls' = Append(calls,
       Call("areBlobsEqual", PathQ, getObjectId(scmEntry_), currentBlobId_,
            << >>, "nullptr", FALSE))
  /\ blobPc' = "awaitEqual"
  /\ UNCHANGED <<ctxVars, entryVars, otherVars, blobResult, blobsEqual,
                 scmEntry_, currentBlobId_, currentDType_, events, crashed>>

\* areBlobsEqualReady comparing the two ids itself instead of using the
\* answer of the store.
areBlobsEqualReadyById ==
  /\ blobPc = "awaitEqual"
  /\ ~crashed
  /\ \E equal \in BOOLEAN :
       /\ getObjectId(scmEntry_) = currentBlobId_ => equal
       /\ blobsEqual' = IF equal THEN "equal" ELSE "notEqual"
       /\ events' = IF getObjectId(scmEntry_) # currentBlobId_
                      THEN Append(events, Event("modified", PathQ, currentDType_))
                      ELSE events
  /\ blobPc' = "finished"
  /\ blobResult' = "unit"
  /\ UNCHANGED <<ctxVars, entryVars, otherVars, scmEntry_, currentBlobId_,
                 currentDType_, calls, crashed>>

\* ObjectStore::areBlobsEqual answered: equal ids are equal blobs, unequal
\* ids may still name the same content.
areBlobsEqualReady ==
  /\ blobPc = "awaitEqual"
  /\ ~crashed
  /\ \E equal \in BOOLEAN :
       /\ getObjectId(scmEntry_) = currentBlobId_ => equal
       /\ blobsEqual' = IF equal THEN "equal" ELSE "notEqual"
       /\ events' = IF ~equal
                      THEN Append(events, Event("modified", PathQ, currentDType_))
                      ELSE events
  /\ blobPc' = "finished"
  /\ blobResult' = "unit"
  /\ UNCHANGED <<ctxVars, entryVars, otherVars, scmEntry_, currentBlobId_, currentDType_,
                 calls, crashed>>

areBlobsEqualFailed ==
  /\ blobPc = "awaitEqual"
  /\ ~crashed
  /\ blobPc' = "finished"
  /\ blobResult' = "areBlobsEqualError"
  /\ UNCHANGED <<ctxVars, entryVars, otherVars, blobsEqual, scmEntry_,
                 currentBlobId_, currentDType_, calls, events, crashed>>

Next ==
  \/ createModifiedEntry
  \/ run
  \/ inodeFailed
  \/ inodeReady
  \/ isSameReady
  \/ isSameFailed
  \/ \E k \in 1..Len(fetches) : getTreeReady(k)
  \/ \E k \in 1..Len(fetches) : getTreeFailed(k)
  \/ collectAllSafe
  \/ diffReady
  \/ diffFailed
  \/ createModifiedBlobEntry
  \/ blobRun
  \/ areBlobsEqualReady
  \/ areBlobsEqualFailed

Spec == Init /\ [][Next]_vars

(***************************************************************************)
(* A ModifiedBlobDiffEntry on its own, over every file entry and live type *)
(***************************************************************************)
FileEntries == {e \in TreeEntry : ~isTree(e)}

NextBlob ==
  \/ createModifiedBlobEntryOf(FileEntries, BlobIds, {"Regular", "Symlink"})
  \/ blobRun
  \/ areBlobsEqualReady
  \/ areBlobsEqualFailed

SpecBlob == Init /\ [][NextBlob]_vars

(***************************************************************************)
(* UntrackedDiffEntry                                                      *)
(***************************************************************************)
\* DeferredDiffEntry::createUntrackedEntry
createUntrackedEntry ==
  /\ untrackedPc = "none"
  /\ \E ignore \in IgnoreStacks, isIgnored \in BOOLEAN :
       /\ untrackedIgnore_' = ignore
       /\ untrackedIsIgnored_' = isIgnored
  /\ untrackedPc' = "created"
  /\ UNCHANGED <<ctxVars, entryVars, blobVars, scmVars, islVars, lfsVars,
                 untrackedResult, untrackedInode, calls, events, crashed>>

\* UntrackedDiffEntry::run: chains the continuation on inodeFuture_.
untrackedRun ==
  /\ untrackedPc = "created"
  /\ untrackedPc' = "awaitInode"
  /\ UNCHANGED <<ctxVars, entryVars, blobVars, scmVars, islVars, lfsVars,
                 untrackedResult, untrackedIgnore_, untrackedIsIgnored_,
                 untrackedInode, calls, events, crashed>>

untrackedInodeFailed ==
  /\ untrackedPc = "awaitInode"
  /\ untrackedPc' = "finished"
  /\ untrackedResult' = "inodeError"
  /\ UNCHANGED <<ctxVars, entryVars, blobVars, scmVars, islVars, lfsVars,
                 untrackedIgnore_, untrackedIsIgnored_, untrackedInode,
                 calls, events, crashed>>

\* untrackedInodeReady tolerating a file: nothing to recurse into, done.
untrackedInodeReadyLenient ==
  /\ untrackedPc = "awaitInode"
  /\ \E i \in Inodes :
       /\ untrackedInode' = i
       /\ IF i.kind = "tree"
            THEN /\ calls' = Append(calls,
                      Call("TreeInode::diff", PathU, NoId, NoId, << >>,
                           untrackedIgnore_, untrackedIsIgnored_))
                 /\ untrackedPc' = "awaitDiff"
                 /\ UNCHANGED untrackedResult
            ELSE /\ untrackedPc' = "finished"
                 /\ untrackedResult' = "unit"
                 /\ UNCHANGED calls
  /\ UNCHANGED <<ctxVars, entryVars, blobVars, scmVars, islVars, lfsVars,
                 untrackedIgnore_, untrackedIsIgnored_, events, crashed>>

\* diffUntracked passing isIgnored as false whatever the entry was given.
diffUntrackedNotIgnored ==
  Call("TreeInode::diff", PathU, NoId, NoId, << >>, untrackedIgnore_, FALSE)

\* treeInode->diff(context_, getPath(), {}, ignore_, isIgnored_)
diffUntracked ==
  Call("TreeInode::diff", PathU, NoId, NoId, << >>,
       untrackedIgnore_, untrackedIsIgnored_)

\* The continuation of run(): a directory is diffed with no snapshot tree,
\* anything else is a bug of the caller.
untrackedInodeReady ==
  /\ untrackedPc = "awaitInode"
  /\ \E i \in Inodes :
       /\ untrackedInode' = i
       /\ IF i.kind = "tree"
            THEN /\ calls' = Append(calls, diffUntracked)
                 /\ untrackedPc' = "awaitDiff"
                 /\ UNCHANGED untrackedResult
            ELSE /\ untrackedPc' = "finished"
                 /\ untrackedResult' = "bug"
                 /\ UNCHANGED calls
  /\ UNCHANGED <<ctxVars, entryVars, blobVars, scmVars, islVars, lfsVars,
                 untrackedIgnore_, untrackedIsIgnored_, events, crashed>>

\* TreeInode::diff completed; what it reports below the path is not modelled.
untrackedDiffReady ==
  /\ untrackedPc = "awaitDiff"
  /\ untrackedPc' = "finished"
  /\ untrackedResult' = "unit"
  /\ UNCHANGED <<ctxVars, entryVars, blobVars, scmVars, islVars, lfsVars,
                 untrackedIgnore_, untrackedIsIgnored_, untrackedInode,
                 calls, events, crashed>>

untrackedDiffFailed ==
  /\ untrackedPc = "awaitDiff"
  /\ untrackedPc' = "finished"
  /\ untrackedResult' = "diffError"
  /\ UNCHANGED <<ctxVars, entryVars, blobVars, scmVars, islVars, lfsVars,
                 untrackedIgnore_, untrackedIsIgnored_, untrackedInode,
                 calls, events, crashed>>

NextUntracked ==
  \/ createUntrackedEntry
  \/ untrackedRun
  \/ untrackedInodeFailed
  \/ untrackedInodeReady
  \/ untrackedDiffReady
  \/ untrackedDiffFailed

SpecUntracked == Init /\ [][NextUntracked]_vars

(***************************************************************************)
(* ModifiedScmDiffEntry, AddedScmDiffEntry, RemovedScmDiffEntry            *)
(***************************************************************************)
scmFrame == <<ctxVars, entryVars, blobVars, untrackedVars, islVars, lfsVars,
              crashed>>

createModifiedScmEntry ==
  /\ scmKind = "none"
  /\ \E scmId \in ScmTreeIds, wdId \in ScmTreeIds :
       /\ scmId_' = scmId
       /\ wdId_' = wdId
  /\ scmKind' = "ModifiedScm"
  /\ scmPc' = "created"
  /\ UNCHANGED <<scmFrame, scmResult, calls, events>>

createAddedScmEntry ==
  /\ scmKind = "none"
  /\ \E wdId \in ScmTreeIds : wdId_' = wdId
  /\ scmKind' = "AddedScm"
  /\ scmPc' = "created"
  /\ UNCHANGED <<scmFrame, scmResult, scmId_, calls, events>>

createRemovedScmEntry ==
  /\ scmKind = "none"
  /\ \E scmId \in ScmTreeIds : scmId_' = scmId
  /\ scmKind' = "RemovedScm"
  /\ scmPc' = "created"
  /\ UNCHANGED <<scmFrame, scmResult, wdId_, calls, events>>

\* ModifiedScmDiffEntry::run with the two ids exchanged.
diffTreesSwapped ==
  Call("diffTrees", PathS, wdId_, scmId_, << >>, "nullptr", FALSE)

\* diffTrees(context_, getPath(), scmId_, wdId_)
diffTreesOfEntry ==
  Call("diffTrees", PathS, scmId_, wdId_, << >>, "nullptr", FALSE)

\* ModifiedScmDiffEntry::run
modifiedScmRun ==
  /\ scmKind = "ModifiedScm"
  /\ scmPc = "created"
  /\ calls' = Append(calls, diffTreesOfEntry)
  /\ scmPc' = "awaitDiff"
  /\ UNCHANGED <<scmFrame, scmKind, scmResult, scmId_, wdId_, events>>

\* AddedScmDiffEntry::run
addedScmRun ==
  /\ scmKind = "AddedScm"
  /\ scmPc = "created"
  /\ calls' = Append(calls,
       Call("diffAddedTree", PathS, NoId, wdId_, << >>, "nullptr", FALSE))
  /\ scmPc' = "awaitDiff"
  /\ UNCHANGED <<scmFrame, scmKind, scmResult, scmId_, wdId_, events>>

\* RemovedScmDiffEntry::run
removedScmRun ==
  /\ scmKind = "RemovedScm"
  /\ scmPc = "created"
  /\ calls' = Append(calls,
       Call("diffRemovedTree", PathS, scmId_, NoId, << >>, "nullptr", FALSE))
  /\ scmPc' = "awaitDiff"
  /\ UNCHANGED <<scmFrame, scmKind, scmResult, scmId_, wdId_, events>>

\* The differ call of the scm-only entry.
scmCall ==
  LET k == CHOOSE k \in 1..Len(calls) : calls[k].by = PathS
  IN calls[k]

\* What the differ of the scm-only entry reports.
scmEvents(c) ==
  CASE c.fn = "diffRemovedTree" -> diffRemovedTree(c.by, c.a)
    [] c.fn = "diffAddedTree" -> diffAddedTree(c.by, c.b)
    [] OTHER -> diffTrees(c.by, c.a, c.b)

scmDiffReady ==
  /\ scmPc = "awaitDiff"
  /\ events' = events \o scmEvents(scmCall)
  /\ scmPc' = "finished"
  /\ scmResult' = "unit"
  /\ UNCHANGED <<scmFrame, scmKind, scmId_, wdId_, calls>>

\* The differ failed after reporting some of its paths.
scmDiffFailed ==
  /\ scmPc = "awaitDiff"
  /\ \E n \in 0..Len(scmEvents(scmCall)) :
       events' = events \o SubSeq(scmEvents(scmCall), 1, n)
  /\ scmPc' = "finished"
  /\ scmResult' = "diffError"
  /\ UNCHANGED <<scmFrame, scmKind, scmId_, wdId_, calls>>

NextScm ==
  \/ createModifiedScmEntry
  \/ createAddedScmEntry
  \/ createRemovedScmEntry
  \/ modifiedScmRun
  \/ addedScmRun
  \/ removedScmRun
  \/ scmDiffReady
  \/ scmDiffFailed

SpecScm == Init /\ [][NextScm]_vars

(***************************************************************************)
(* The client's subscriptions and the atoms they write                     *)
(***************************************************************************)
islFrame == <<ctxVars, entryVars, blobVars, untrackedVars, scmVars, lfsVars, calls,
              events, crashed>>

Message(type, kind, subscriptionID) ==
  [type |-> type, kind |-> kind, subscriptionID |-> subscriptionID]

\* subscriptionEffect up to the registration with onSetup: a fresh id, the
\* handler for subscriptionResult registered.
subscriptionEffect(kind) ==
  /\ Len(subscriptions) < MaxSubscriptions
  /\ subscriptions' = Append(subscriptions,
       [kind |-> kind, state |-> "registered"])
  /\ mostRecentSubscriptionIds' =
       [mostRecentSubscriptionIds EXCEPT ![kind] = Len(subscriptions) + 1]
  /\ UNCHANGED <<islFrame, posted, event, received, delivered,
                 latestUncommittedChangesData, latestCommitsData,
                 isFetchingCommits, isFetchingUncommittedChanges>>

\* The callback given to serverAPI.onSetup runs.
onSetup(s) ==
  /\ subscriptions[s].state = "registered"
  /\ subscriptions' = [subscriptions EXCEPT ![s].state = "subscribed"]
  /\ posted' = Append(posted, Message("subscribe", subscriptions[s].kind, s))
  /\ UNCHANGED <<islFrame, mostRecentSubscriptionIds, event, received, delivered,
                 latestUncommittedChangesData, latestCommitsData,
                 isFetchingCommits, isFetchingUncommittedChanges>>

\* The function subscriptionEffect returned: the handler is disposed and, if
\* the setup callback ran, the function it returned is called.
dispose(s) ==
  /\ subscriptions[s].state \in {"registered", "subscribed"}
  /\ subscriptions' = [subscriptions EXCEPT ![s].state = "disposed"]
  /\ posted' = IF subscriptions[s].state = "subscribed"
                 THEN Append(posted,
                        Message("unsubscribe", subscriptions[s].kind, s))
                 ELSE posted
  /\ UNCHANGED <<islFrame, mostRecentSubscriptionIds, event, received, delivered,
                 latestUncommittedChangesData, latestCommitsData,
                 isFetchingCommits, isFetchingUncommittedChanges>>

\* listening with a handler that dispose does not remove.
listeningForever(s) == TRUE

\* Is the subscriptionResult handler of subscription s still registered?
listening(s) == subscriptions[s].state # "disposed"

\* The handler's test: both the id and the kind are its own.
matches(s, e) == e.subscriptionID = s /\ e.kind = subscriptions[s].kind

\* onData of the 'uncommittedChanges' subscription, as a function of the
\* stored value and the data received.
uncommittedChangesData(last, data) ==
  [files |-> IF data.value # Undefined THEN data.value[1]
             ELSE IF last.error = Undefined THEN << >> ELSE last.files,
   error |-> data.error]

\* commitsData written the way uncommittedChangesData is: without a commit
\* list the stored commits survive only if an error was stored with them.
commitsDataLikeFiles(last, data) ==
  [commits |-> IF data.value # Undefined THEN data.value[1]
               ELSE IF last.error = Undefined THEN << >> ELSE last.commits,
   error |-> data.error]

\* onData of the 'smartlogCommits' subscription; reuseEqualObjects returns a
\* list equal to the new commits.
commitsData(last, data) ==
  [commits |-> IF data.value # Undefined THEN data.value[1] ELSE last.commits,
   error |-> data.error]

\* The messages the server sends.
SubscriptionResults ==
  {[type |-> "subscriptionResult", kind |-> k, subscriptionID |-> id,
    data |-> d] :
     k \in SubscriptionKind, id \in 1..MaxSubscriptions,
     d \in UncommittedChangesResults \cup SmartlogCommitsResults}

ServerEvents ==
  {e \in SubscriptionResults :
     e.data \in (IF e.kind = "uncommittedChanges"
                   THEN UncommittedChangesResults
                   ELSE SmartlogCommitsResults)}
    \cup {[type |-> t, kind |-> "none", subscriptionID |-> 0,
           data |-> NoData] :
            t \in {"beganFetchingSmartlogCommitsEvent",
                   "beganFetchingUncommittedChangesEvent"}}

\* The subscriptions whose handler calls onData for message e.
Receivers(e) ==
  {s \in 1..Len(subscriptions) :
     e.type = "subscriptionResult" /\ listening(s) /\ matches(s, e)}

\* A server message is dispatched to every registered handler.
onMessage(e) ==
  /\ received < MaxEvents
  /\ received' = received + 1
  /\ event' = e
  /\ delivered' = Receivers(e)
  /\ latestUncommittedChangesData' =
       IF \E s \in Receivers(e) : subscriptions[s].kind = "uncommittedChanges"
         THEN uncommittedChangesData(latestUncommittedChangesData, e.data)
         ELSE latestUncommittedChangesData
  /\ latestCommitsData' =
       IF \E s \in Receivers(e) : subscriptions[s].kind = "smartlogCommits"
         THEN commitsData(latestCommitsData, e.data)
         ELSE latestCommitsData
  /\ isFetchingCommits' =
       CASE e.type = "subscriptionResult" -> FALSE
         [] e.type = "beganFetchingSmartlogCommitsEvent" -> TRUE
         [] OTHER -> isFetchingCommits
  /\ isFetchingUncommittedChanges' =
       CASE e.type = "subscriptionResult" /\ e.kind = "uncommittedChanges" -> FALSE
         [] e.type = "beganFetchingUncommittedChangesEvent" -> TRUE
         [] OTHER -> isFetchingUncommittedChanges
  /\ UNCHANGED <<islFrame, subscriptions, mostRecentSubscriptionIds, posted>>

InitISL == Init /\ ~listIgnored /\ ~windowsSymlinksEnabled

NextISL ==
  \/ \E kind \in SubscriptionKind : subscriptionEffect(kind)
  \/ \E s \in 1..Len(subscriptions) : onSetup(s)
  \/ \E s \in 1..Len(subscriptions) : dispose(s)
  \/ \E e \in ServerEvents : onMessage(e)

SpecISL == InitISL /\ [][NextISL]_vars

(***************************************************************************)
(* The LFS proxy and its upstream                                          *)
(***************************************************************************)
lfsFrame == <<ctxVars, entryVars, blobVars, untrackedVars, scmVars, islVars,
              calls, events, crashed>>

Request(method, server, what, oid) ==
  [method |-> method, server |-> server, what |-> what, oid |-> oid]

Batch(server) == Request("POST", server, "objects/batch", "-")

\* The proxy's upload handler keeping the object to itself.
syncUpstreamNever(oid, content) == lfs_upstream

\* The proxy's upload handler: an object the upstream lacks is sent there.
syncUpstream(oid, content) ==
  IF lfs_upstream[oid] = Absent
    THEN [lfs_upstream EXCEPT ![oid] = content]
    ELSE lfs_upstream

\* hg debuglfssend "$lfs_upstream": batch, then the upload the batch asks for.
debuglfssendUpstream(content) ==
  LET oid == Sha256(content)
      missing == lfs_upstream[oid] = Absent
  IN /\ commandCount < MaxCommands
     /\ commandCount' = commandCount + 1
     /\ command' = [name |-> "debuglfssend", server |-> "lfs_upstream",
                    oid |-> oid, content |-> content]
     /\ log_upstream' = log_upstream \o << Batch("lfs_upstream") >>
          \o (IF missing
                THEN << Request("PUT", "lfs_upstream", "upload", oid) >>
                ELSE << >>)
     /\ lfs_upstream' = IF missing THEN [lfs_upstream EXCEPT ![oid] = content]
                        ELSE lfs_upstream
     /\ UNCHANGED <<lfsFrame, lfs_proxy, log_proxy>>

\* hg debuglfssend "$lfs_proxy": the proxy's batch asks the upstream; an
\* object the proxy or the upstream lacks is uploaded to the proxy, whose
\* upload handler asks the upstream again and uploads there what is missing.
debuglfssendProxy(content) ==
  LET oid == Sha256(content)
      upload == lfs_proxy[oid] = Absent \/ lfs_upstream[oid] = Absent
      forward == lfs_upstream[oid] = Absent
  IN /\ commandCount < MaxCommands
     /\ commandCount' = commandCount + 1
     /\ command' = [name |-> "debuglfssend", server |-> "lfs_proxy",
                    oid |-> oid, content |-> content]
     /\ log_proxy' = log_proxy \o << Batch("lfs_proxy") >>
          \o (IF upload
                THEN << Request("PUT", "lfs_proxy", "upload", oid) >>
                ELSE << >>)
     /\ log_upstream' = log_upstream \o << Batch("lfs_upstream") >>
          \o (IF upload THEN << Batch("lfs_upstream") >> ELSE << >>)
          \o (IF upload /\ forward
                THEN << Request("PUT", "lfs_upstream", "upload", oid) >>
                ELSE << >>)
     /\ lfs_proxy' = IF upload THEN [lfs_proxy EXCEPT ![oid] = content]
                     ELSE lfs_proxy
     /\ lfs_upstream' = IF upload THEN syncUpstream(oid, content)
                        ELSE lfs_upstream
     /\ UNCHANGED lfsFrame

\* hg debuglfsreceive "$lfs_proxy": the proxy's batch asks the upstream and
\* sends the client to its own copy, or to the upstream's if it has none.
debuglfsreceiveProxy(oid) ==
  LET local == lfs_proxy[oid] # Absent
  IN /\ commandCount < MaxCommands
     /\ lfs_proxy[oid] # Absent \/ lfs_upstream[oid] # Absent
     /\ commandCount' = commandCount + 1
     /\ command' = [name |-> "debuglfsreceive", server |-> "lfs_proxy",
                    oid |-> oid,
                    content |-> IF local THEN lfs_proxy[oid]
                                ELSE lfs_upstream[oid]]
     /\ log_proxy' = log_proxy \o << Batch("lfs_proxy") >>
          \o (IF local
                THEN << Request("GET", "lfs_proxy", "download", oid) >>
                ELSE << >>)
     /\ log_upstream' = log_upstream \o << Batch("lfs_upstream") >>
          \o (IF local THEN << >>
              ELSE << Request("GET", "lfs_upstream", "download", oid) >>)
     /\ UNCHANGED <<lfsFrame, lfs_proxy, lfs_upstream>>

\* hg debuglfsreceive "$lfs_upstream"
debuglfsreceiveUpstream(oid) ==
  /\ commandCount < MaxCommands
  /\ lfs_upstream[oid] # Absent
  /\ commandCount' = commandCount + 1
  /\ command' = [name |-> "debuglfsreceive", server |-> "lfs_upstream",
                 oid |-> oid, content |-> lfs_upstream[oid]]
  /\ log_upstream' = log_upstream
       \o << Batch("lfs_upstream"),
             Request("GET", "lfs_upstream", "download", oid) >>
  /\ UNCHANGED <<lfsFrame, lfs_proxy, lfs_upstream, log_proxy>>

InitLFS == Init /\ ~listIgnored /\ ~windowsSymlinksEnabled

NextLFS ==
  \/ \E content \in Contents : debuglfssendUpstream(content)
  \/ \E content \in Contents : debuglfssendProxy(content)
  \/ \E oid \in Oids : debuglfsreceiveProxy(oid)
  \/ \E oid \in Oids : debuglfsreceiveUpstream(oid)

SpecLFS == InitLFS /\ [][NextLFS]_vars

(***************************************************************************)
(* Properties                                                              *)
(***************************************************************************)
EventIndices(kind, path) ==
  {k \in 1..Len(events) : events[k].kind = kind /\ events[k].path = path}

Count(kind, path) == Cardinality(EventIndices(kind, path))

CountAt(path) == Cardinality({k \in 1..Len(events) : events[k].path = path})

AtOrBelow(path, x) == Len(x) >= Len(path) /\ SubSeq(x, 1, Len(path)) = path

EventsAtOrBelow(path) == {k \in 1..Len(events) : AtOrBelow(path, events[k].path)}

CallsBy(path) == {k \in 1..Len(calls) : calls[k].by = path}

\* The paths below `path` in the snapshot tree `id`.
RECURSIVE Descendants(_, _)
Descendants(path, id) ==
  LET tree == TreeContents(id)
  IN UNION {{Append(path, tree[k].name)}
              \cup (IF tree[k].type = "TREE"
                      THEN Descendants(Append(path, tree[k].name), tree[k].id)
                      ELSE {}) : k \in 1..Len(tree)}

\* The continuation of run() has dispatched on a resolved inode.
Dispatched == inode # NoInode

DirToFile == Dispatched /\ scmEntries_[1].type = "TREE" /\ inode.kind = "file"

FileToDir == Dispatched /\ scmEntries_[1].type # "TREE" /\ inode.kind = "tree"

DirToDir == Dispatched /\ scmEntries_[1].type = "TREE" /\ inode.kind = "tree"

FileToFile == Dispatched /\ scmEntries_[1].type # "TREE" /\ inode.kind = "file"

RemovedOnceWithDtype(dtype) ==
  /\ Count("removed", PathP) = 1
  /\ \A k \in EventIndices("removed", PathP) : events[k].dtype = dtype

RemovedTreeReported ==
  result = "unit" =>
    /\ \A d \in Descendants(PathP, scmEntries_[1].id) : Count("removed", d) = 1
    /\ \A k \in EventsAtOrBelow(PathP) :
         events[k].path # PathP =>
           /\ events[k].kind = "removed"
           /\ events[k].path \in Descendants(PathP, scmEntries_[1].id)

\* C1 as stated: in the directory -> file case, whatever isIgnored and
\* listIgnored are, the events hold exactly one removed(P) with the first
\* candidate's dtype, exactly one added(P) or ignored(P) with the live type,
\* and one removed event per descendant of the first candidate's tree.
C1_AsStated ==
  DirToFile =>
    /\ RemovedOnceWithDtype("Dir")
    /\ Count("added", PathP) + Count("ignored", PathP) = 1
    /\ \A k \in EventIndices("added", PathP) \cup EventIndices("ignored", PathP) :
         events[k].dtype = getDtype(inode)
    /\ RemovedTreeReported

\* C1 amended: in the directory -> file case the events hold exactly one
\* removed(P) with the first candidate's dtype; exactly one added(P) if the
\* path is not ignored, exactly one ignored(P) if it is ignored and
\* listIgnored is set, and neither if it is ignored and listIgnored is not
\* set (each carrying the live type); and, once the task succeeded, one
\* removed event per descendant of the first candidate's tree.
C1_ShapeChangeToFile ==
  DirToFile =>
    /\ RemovedOnceWithDtype("Dir")
    /\ Count("added", PathP) = (IF isIgnored_ THEN 0 ELSE 1)
    /\ Count("ignored", PathP) = (IF isIgnored_ /\ listIgnored THEN 1 ELSE 0)
    /\ \A k \in EventIndices("added", PathP) \cup EventIndices("ignored", PathP) :
         events[k].dtype = getDtype(inode)
    /\ RemovedTreeReported

C1_Witness ==
  /\ DirToFile
  /\ result = "unit"
  /\ isIgnored_ /\ ~listIgnored
  /\ scmEntries_[1].id = "T2"
  /\ Count("removed", <<"p", "d", "f">>) = 1

\* C2: in the file -> directory case the task reports removed(P) with the
\* filtered dtype of the first candidate, reports added(P) with the live
\* type unless the path is ignored and listIgnored is not set (then no added
\* event), and recurses into the directory as an added tree.
C2_AsStated ==
  FileToDir =>
    /\ RemovedOnceWithDtype(
         filteredEntryDtype(getDtype(scmEntries_[1]), windowsSymlinksEnabled))
    /\ IF isIgnored_ /\ ~listIgnored
         THEN Count("added", PathP) = 0
         ELSE /\ Count("added", PathP) = 1
              /\ \A k \in EventIndices("added", PathP) : events[k].dtype = "Dir"
              /\ \E k \in CallsBy(PathP) :
                   calls[k].fn = "TreeInode::diff" /\ calls[k].trees = << >>

\* C3: an unmaterialized live directory whose tree id is identical to the id
\* of any candidate finishes successfully with no event at or below its
\* path, no tree fetch and no delegated diff.
C3_IdentityShortCircuit ==
  (/\ DirToDir
   /\ ~inode.materialized
   /\ \E k \in 1..Len(scmEntries_) : scmEntries_[k].id = inode.id) =>
    /\ pc = "finished"
    /\ result = "unit"
    /\ EventsAtOrBelow(PathP) = {}
    /\ CallsBy(PathP) = {}

C3_Witness ==
  /\ DirToDir
  /\ ~inode.materialized
  /\ Len(scmEntries_) = 2
  /\ scmEntries_[1].id # inode.id
  /\ scmEntries_[2].id = inode.id
  /\ result = "unit"

EventKinds == {"added", "removed", "modified", "ignored"}

\* C4 as stated: every exact path receives at most one event.
C4_AsStated == \A k \in 1..Len(events) : CountAt(events[k].path) <= 1

\* C4 amended: every exact path receives at most one event of each kind,
\* and more than one event only in a shape change, where it receives one
\* removed event and one added or ignored event.
C4_OneEventPerPathAndKind ==
  \A k \in 1..Len(events) :
    LET x == events[k].path
    IN /\ \A kind \in EventKinds : Count(kind, x) <= 1
       /\ CountAt(x) > 1 =>
            /\ x = PathP
            /\ DirToFile \/ FileToDir
            /\ CountAt(x) = 2
            /\ Count("removed", x) = 1
            /\ Count("added", x) + Count("ignored", x) = 1

C4_Witness ==
  /\ DirToFile
  /\ isIgnored_ /\ listIgnored
  /\ CountAt(PathP) = 2
  /\ CountAt(PathQ) = 1
  /\ result = "unit"

\* C5: file against file reports exactly one modified(P), with the live
\* file's type, iff the live file differs from the first candidate's
\* (id, filtered type) pair, and nothing otherwise; later candidates do not
\* matter.
C5_FileComparedWithFirst ==
  (FileToFile /\ result = "unit") =>
    LET same ==
          /\ inode.id = scmEntries_[1].id
          /\ inode.type =
               filteredEntryType(scmEntries_[1].type, windowsSymlinksEnabled)
    IN /\ Count("modified", PathP) = (IF same THEN 0 ELSE 1)
       /\ \A k \in EventsAtOrBelow(PathP) :
            /\ events[k].path = PathP
            /\ events[k].kind = "modified"
            /\ events[k].dtype = getDtype(inode)
       /\ \A k \in CallsBy(PathP) :
            /\ calls[k].fn = "isSameAs"
            /\ calls[k].a = scmEntries_[1].id

C5_Witness ==
  /\ FileToFile
  /\ result = "unit"
  /\ Len(scmEntries_) = 2
  /\ scmEntries_[2].id = inode.id
  /\ scmEntries_[2].type = inode.type
  /\ scmEntries_[1].id # inode.id
  /\ Count("modified", PathP) = 1

NoCandidateMatches ==
  \A k \in 1..Len(scmEntries_) : scmEntries_[k].id # inode.id

\* C6: an unmaterialized live directory identical to none of the candidates
\* gets exactly one modified event at its path and is handed to the
\* tree-vs-tree differ with the first candidate's id and its own id; no tree
\* is fetched.
C6_UnmaterializedMismatch ==
  (DirToDir /\ ~inode.materialized /\ NoCandidateMatches) =>
    /\ Count("modified", PathP) = 1
    /\ CountAt(PathP) = 1
    /\ Cardinality(CallsBy(PathP)) = 1
    /\ \A k \in CallsBy(PathP) :
         /\ calls[k].fn = "diffTrees"
         /\ calls[k].a = scmEntries_[1].id
         /\ calls[k].b = inode.id

C6_Witness ==
  /\ DirToDir
  /\ ~inode.materialized
  /\ NoCandidateMatches
  /\ Len(scmEntries_) = 2
  /\ scmEntries_[2].id # scmEntries_[1].id
  /\ result = "unit"
  /\ Count("modified", PathP) = 1

\* C7 as stated: when the snapshot side and the live side are both
\* directories, no event is reported for the directory path itself.
C7_AsStated == DirToDir => CountAt(PathP) = 0

\* C7 amended: when both sides are directories, no event is reported for
\* the directory path itself, except one modified event when the live
\* directory is unmaterialized and identical to none of the candidates.
C7_DirectoryEvents ==
  DirToDir =>
    /\ CountAt(PathP) =
         (IF ~inode.materialized /\ NoCandidateMatches THEN 1 ELSE 0)
    /\ \A kind \in EventKinds \ {"modified"} : Count(kind, PathP) = 0

C7_Witness ==
  /\ DirToDir
  /\ inode.materialized
  /\ result = "unit"
  /\ CountAt(PathP) = 0

CallsOf(path) == SelectSeq(calls, LAMBDA c : c.by = path)

\* C8: for a materialized live directory the task issues one getTree per
\* candidate, in candidate order and before awaiting any; the directory
\* comparison is started only once every fetch has completed successfully,
\* with the fetched trees in candidate order and the task's ignore stack
\* and isIgnored flag; if a fetch failed it is never started.
C8_MaterializedDirectory ==
  (DirToDir /\ inode.materialized) =>
    LET n == Len(scmEntries_)
        mine == CallsOf(PathP)
    IN /\ Len(fetches) = n
       /\ Len(mine) \in {n, n + 1}
       /\ \A k \in 1..n :
            mine[k].fn = "getTree" /\ mine[k].a = scmEntries_[k].id
       /\ Len(mine) = n + 1 =>
            /\ mine[n + 1].fn = "TreeInode::diff"
            /\ mine[n + 1].trees = [k \in 1..n |-> scmEntries_[k].id]
            /\ mine[n + 1].ignore = ignore_
            /\ mine[n + 1].isIgnored = isIgnored_
            /\ \A k \in 1..n : fetches[k] = scmEntries_[k].id
       /\ (\E k \in 1..n : fetches[k] = "failed") => Len(mine) = n
       /\ result # "pending" => \A k \in 1..n : fetches[k] # "pending"

C8_Witness ==
  /\ DirToDir
  /\ inode.materialized
  /\ Len(scmEntries_) = 2
  /\ scmEntries_[1].id # scmEntries_[2].id
  /\ ignore_ = "ignoreStack"
  /\ isIgnored_
  /\ pc = "awaitDiff"

\* C9: every ModifiedDiffEntry that exists carries at least one candidate;
\* constructing one with no candidate fails a check and produces no entry.
C9_NonEmptyCandidates ==
  /\ pc # "none" => Len(scmEntries_) > 0
  /\ crashed => pc = "none" /\ scmEntries_ = << >>

C9_Witness == crashed /\ pc = "none" /\ blobPc = "finished"

ResolutionErrors == {"inodeError", "getTreeError", "isSameError"}

CountCalls(fn) == Cardinality({k \in 1..Len(calls) : calls[k].fn = fn})

\* C10: when inode resolution, a tree fetch, the isSameAs check or the blob
\* equality check fails, the entry's future holds the failure and stays
\* failed, no operation is requested again, nothing has been reported for
\* the entry's path, and events reported earlier stay reported.
C10_ErrorPolicy ==
  [][/\ result' \in ResolutionErrors =>
          pc' = "finished" /\ EventsAtOrBelow(PathP)' = {}
     /\ blobResult' = "areBlobsEqualError" =>
          blobPc' = "finished" /\ EventsAtOrBelow(PathQ)' = {}
     /\ Len(events') >= Len(events)
     /\ SubSeq(events', 1, Len(events)) = events
     /\ result # "pending" =>
          /\ UNCHANGED <<pc, result, fetches>>
          /\ CallsOf(PathP)' = CallsOf(PathP)
     /\ blobResult # "pending" =>
          /\ UNCHANGED <<blobPc, blobResult>>
          /\ CallsOf(PathQ)' = CallsOf(PathQ)
     /\ CountCalls("isSameAs")' <= 1
     /\ CountCalls("areBlobsEqual")' <= 1
     /\ CountCalls("getTree")' <= Len(scmEntries_')
    ]_vars

C10_Witness ==
  /\ result = "getTreeError"
  /\ blobResult = "areBlobsEqualError"
  /\ Len(scmEntries_) = 2
  /\ \E k \in 1..Len(fetches) : fetches[k] \in TreeIds

(***************************************************************************)
(* Scheduling, joins, errors and the contents lock                         *)
(***************************************************************************)
EventSet(evs) == {<<evs[k].path, evs[k].kind>> : k \in 1..Len(evs)}

\* Every path below `path` in the snapshot tree `id`, with its entry.
RECURSIVE Flatten(_, _)
Flatten(path, id) ==
  LET tree == TreeContents(id)
  IN UNION {{[path |-> Append(path, tree[k].name), entry |-> tree[k]]}
              \cup (IF isTree(tree[k])
                      THEN Flatten(Append(path, tree[k].name), tree[k].id)
                      ELSE {}) : k \in 1..Len(tree)}

\* The difference of two snapshot trees path by path: a path is removed if
\* the other side has nothing of its shape there, added symmetrically, and
\* modified if both sides hold a different file there.
TreeDelta(path, scmId, wdId) ==
  LET A == Flatten(path, scmId)
      B == Flatten(path, wdId)
      sameShape(x, Y) ==
        \E y \in Y : y.path = x.path /\ isTree(y.entry) = isTree(x.entry)
  IN {<<x.path, "removed">> : x \in {x \in A : ~sameShape(x, B)}}
       \cup {<<y.path, "added">> : y \in {y \in B : ~sameShape(y, A)}}
       \cup {<<x.path, "modified">> :
               x \in {x \in A : /\ ~isTree(x.entry)
                                /\ \E y \in B : /\ y.path = x.path
                                                /\ ~isTree(y.entry)
                                                /\ y.entry # x.entry}}

\* What a successful ModifiedDiffEntry reports, from its inputs alone.
ExpectedAtP ==
  CASE DirToFile ->
         {<<PathP, "removed">>}
           \cup (IF ~isIgnored_ THEN {<<PathP, "added">>}
                 ELSE IF listIgnored THEN {<<PathP, "ignored">>} ELSE {})
           \cup {<<d, "removed">> : d \in Descendants(PathP, scmEntries_[1].id)}
    [] FileToDir -> {<<PathP, "removed">>, <<PathP, "added">>}
    [] DirToDir ->
         IF inode.materialized
              \/ \E k \in 1..Len(scmEntries_) : scmEntries_[k].id = inode.id
           THEN {}
           ELSE {<<PathP, "modified">>}
                  \cup TreeDelta(PathP, scmEntries_[1].id, inode.id)
    [] OTHER ->
         IF /\ inode.id = scmEntries_[1].id
            /\ inode.type = filteredEntryType(scmEntries_[1].type,
                                              windowsSymlinksEnabled)
           THEN {} ELSE {<<PathP, "modified">>}

\* What a successful ModifiedBlobDiffEntry reports, from the store's answer.
ExpectedAtQ == IF blobsEqual = "notEqual" THEN {<<PathQ, "modified">>} ELSE {}

\* C11: once both sibling entries have succeeded, the set of (path, kind)
\* events is the one fixed by the live inode, the candidates, the flags and
\* the store's answers, whatever the order in which the two entries ran and
\* their awaited operations completed.
C11_ScheduleIndependent ==
  (result = "unit" /\ blobResult = "unit") =>
    EventSet(events) = ExpectedAtP \cup ExpectedAtQ

C11_Witness ==
  /\ result = "unit"
  /\ blobResult = "unit"
  /\ \E i, j, k \in 1..Len(events) :
       /\ i < j /\ j < k
       /\ events[i].path = PathP
       /\ events[j].path = PathQ
       /\ AtOrBelow(PathP, events[k].path)

HasDelegate == \E k \in CallsBy(PathP) : calls[k].fn \in Delegates

\* C12: the future of an entry is resolved only when the entry has nothing
\* left to await: no tree fetch is pending, a delegated differ has completed
\* and, on success, everything it reports has been reported; afterwards
\* nothing more is reported at or below the entry's path.
C12_JoinDiscipline ==
  [][/\ result' # "pending" =>
          /\ pc' = "finished"
          /\ \A k \in 1..Len(fetches') : fetches'[k] # "pending"
          /\ (result' = "unit" /\ HasDelegate') =>
               EventSet(delegatedEvents(delegatedCall))' \subseteq EventSet(events)'
     /\ blobResult' # "pending" => blobPc' = "finished"
     /\ result # "pending" => EventsAtOrBelow(PathP)' = EventsAtOrBelow(PathP)
     /\ blobResult # "pending" => EventsAtOrBelow(PathQ)' = EventsAtOrBelow(PathQ)
    ]_vars

C12_Witness ==
  /\ DirToFile
  /\ result = "unit"
  /\ scmEntries_[1].id = "T2"
  /\ Cardinality(EventsAtOrBelow(PathP)) = 5
  /\ blobPc = "awaitEqual"

\* C13: a shape mismatch between the first candidate and the live inode
\* never fails the entry by itself: the entry succeeds unless the differ it
\* delegated to failed.
C13_ShapeMismatchIsNoError ==
  (DirToFile \/ FileToDir) =>
    /\ result \in {"pending", "unit", "diffError"}
    /\ result = "diffError" => HasDelegate
    /\ (pc = "finished" /\ ~HasDelegate) => result = "unit"

C13_Witness ==
  /\ FileToDir
  /\ isIgnored_
  /\ ~listIgnored
  /\ result = "unit"

AsyncCalls == {"getTree", "diffTrees", "diffRemovedTree"}

\* How many contents locks are held before the n-th operation of lockOps.
HeldBefore(n) ==
  Cardinality({k \in 1..(n - 1) : lockOps[k] = "wlock"})
    - Cardinality({k \in 1..(n - 1) : lockOps[k] = "unlock"})

\* C14: the write lock on the live directory's contents is not held when a
\* tree fetch or a delegated tree diff is started, nor when the continuation
\* returns.
C14_NoLockAcrossSuspension ==
  /\ \A n \in 1..Len(lockOps) : lockOps[n] \in AsyncCalls => HeldBefore(n) = 0
  /\ HeldBefore(Len(lockOps) + 1) = 0

C14_Witness ==
  /\ DirToDir
  /\ ~inode.materialized
  /\ pc = "awaitDiff"
  /\ lockOps = << "wlock", "unlock", "diffTrees" >>

\* C15: a ModifiedBlobDiffEntry that succeeded has reported exactly one
\* event, modified with the live dtype, if the store answered that the blobs
\* differ, and no event if it answered that they are equal, whatever the
\* types of the two sides; an entry that has not succeeded has reported
\* nothing.
C15_BlobOnly ==
  IF blobResult = "unit" /\ blobsEqual = "notEqual"
    THEN /\ CountAt(PathQ) = 1
         /\ \A k \in EventsAtOrBelow(PathQ) :
              events[k] = Event("modified", PathQ, currentDType_)
    ELSE EventsAtOrBelow(PathQ) = {}

C15_Witness ==
  /\ blobResult = "unit"
  /\ blobsEqual = "equal"
  /\ getObjectId(scmEntry_) # currentBlobId_
  /\ scmEntry_.type = "SYMLINK"
  /\ currentDType_ = "Regular"

(***************************************************************************)
(* The untracked entry and the source-control-only entries                 *)
(***************************************************************************)
UntrackedCalls == {k \in 1..Len(calls) : calls[k].by = PathU}

\* C16: an UntrackedDiffEntry whose inode is a directory reports nothing for
\* its own path and makes exactly one call, TreeInode::diff with an empty
\* list of snapshot trees and the ignore stack and isIgnored flag it was
\* constructed with; it resolves only after that call was made.
C16_UntrackedDirectory ==
  untrackedInode.kind = "tree" =>
    /\ CountAt(PathU) = 0
    /\ Cardinality(UntrackedCalls) = 1
    /\ \A k \in UntrackedCalls :
         calls[k] = Call("TreeInode::diff", PathU, NoId, NoId, << >>,
                         untrackedIgnore_, untrackedIsIgnored_)
    /\ untrackedResult \in {"pending", "unit", "diffError"}

C16_Witness ==
  /\ untrackedInode.kind = "tree"
  /\ untrackedIgnore_ = "ignoreStack"
  /\ untrackedIsIgnored_
  /\ untrackedResult = "unit"

\* What the differ of a successful scm-only entry has to report.
ExpectedAtS ==
  CASE scmKind = "ModifiedScm" -> TreeDelta(PathS, scmId_, wdId_)
    [] scmKind = "AddedScm" ->
         {<<x.path, "added">> : x \in Flatten(PathS, wdId_)}
    [] OTHER -> {<<x.path, "removed">> : x \in Flatten(PathS, scmId_)}

Dispatching == received' = received + 1

\* C18 as stated: when the 'uncommittedChanges' subscription receives a
\* result that carries an error while the stored state has no error, the
\* stored files stay as they are and the error is recorded.
C18_AsStated ==
  [][(/\ Dispatching
      /\ \E s \in delivered' : subscriptions[s].kind = "uncommittedChanges"
      /\ event'.data.error # Undefined
      /\ latestUncommittedChangesData.error = Undefined)
       => /\ latestUncommittedChangesData'.files =
               latestUncommittedChangesData.files
          /\ latestUncommittedChangesData'.error = event'.data.error
    ]_vars

PostedFor(s) == SelectSeq(posted, LAMBDA m : m.subscriptionID = s)

\* What a subscription has posted: nothing before its setup, then subscribe,
\* and unsubscribe once disposed, all with its kind and id.
PostedProtocol ==
  /\ \A k \in 1..Len(posted) : posted[k].subscriptionID \in 1..Len(subscriptions)
  /\ \A s \in 1..Len(subscriptions) :
       LET subscribe == Message("subscribe", subscriptions[s].kind, s)
           unsubscribe == Message("unsubscribe", subscriptions[s].kind, s)
       IN CASE subscriptions[s].state = "registered" -> PostedFor(s) = << >>
            [] subscriptions[s].state = "subscribed" ->
                 PostedFor(s) = << subscribe >>
            [] OTHER -> PostedFor(s) \in {<< >>, << subscribe, unsubscribe >>}

\* C19: a subscription posts 'subscribe' with its kind and id when set up
\* and 'unsubscribe' with the same kind and id when disposed after that; its
\* onData runs only for a 'subscriptionResult' whose subscriptionID and kind
\* are both its own, and never once it is disposed.
C19_SubscriptionProtocol ==
  [][/\ PostedProtocol'
     /\ Dispatching =>
          \A s \in delivered' :
            /\ event'.type = "subscriptionResult"
            /\ event'.subscriptionID = s
            /\ event'.kind = subscriptions[s].kind
            /\ subscriptions[s].state # "disposed"
     /\ ~Dispatching => delivered' = delivered
    ]_vars

C19_Witness ==
  \E s \in 1..Len(subscriptions) :
    /\ subscriptions[s].state = "disposed"
    /\ Len(PostedFor(s)) = 2
    /\ received = 2
    /\ event.type = "subscriptionResult"
    /\ event.subscriptionID = s
    /\ event.kind = subscriptions[s].kind
    /\ delivered = {}
    /\ latestCommitsData.commits = << "c" >>

\* C20 as stated: isFetchingCommits becomes true on
\* 'beganFetchingSmartlogCommitsEvent' and becomes false only on a
\* subscription result of kind 'smartlogCommits'; a result of another kind
\* leaves it as it is.
C20_AsStated ==
  [][/\ (Dispatching /\ event'.type = "beganFetchingSmartlogCommitsEvent")
          => isFetchingCommits'
     /\ (isFetchingCommits /\ ~isFetchingCommits')
          => event'.type = "subscriptionResult" /\ event'.kind = "smartlogCommits"
    ]_vars

\* The atom haveCommitsLoadedYet, read from latestCommitsData.
haveCommitsLoadedYet ==
  Len(latestCommitsData.commits) > 0 \/ latestCommitsData.error # Undefined

\* The 'smartlogCommits' subscription runs its onData in this step.
CommitsResultProcessed ==
  /\ Dispatching
  /\ \E s \in delivered' : subscriptions[s].kind = "smartlogCommits"

\* C21 as stated: haveCommitsLoadedYet is true after every step in which a
\* smartlog commits result was processed, be it a commit list (an empty one
\* included) or an error, stays true from then on, and is false as long as
\* no result was processed.
C21_AsStated ==
  [][/\ CommitsResultProcessed => haveCommitsLoadedYet'
     /\ haveCommitsLoadedYet => haveCommitsLoadedYet'
     /\ ~CommitsResultProcessed => (haveCommitsLoadedYet' = haveCommitsLoadedYet)
    ]_vars

\* C23: a processed 'smartlogCommits' result that carries an error and no
\* commit list leaves the stored commits as they are and stores the error;
\* one that carries a commit list stores that list and no error; no other
\* step changes latestCommitsData.
C23_CommitsOnError ==
  [][IF CommitsResultProcessed
       THEN IF event'.data.value = Undefined
              THEN /\ event'.data.error # Undefined
                   /\ latestCommitsData' =
                        [commits |-> latestCommitsData.commits,
                         error |-> event'.data.error]
              ELSE latestCommitsData' =
                     [commits |-> event'.data.value[1], error |-> Undefined]
       ELSE latestCommitsData' = latestCommitsData
    ]_vars

C23_Witness ==
  /\ latestCommitsData = [commits |-> << "c" >>, error |-> Some("Error")]
  /\ event.type = "subscriptionResult"
  /\ event.kind = "smartlogCommits"
  /\ event.data.value = Undefined
  /\ delivered # {}

(***************************************************************************)
(* Order of the reports of a shape change; the untracked non-directory     *)
(***************************************************************************)
Before(K1, K2) == \A i \in K1, j \in K2 : i < j

Below(path) == {k \in EventsAtOrBelow(path) : events[k].path # path}

C25_UntrackedNonDirectory ==
  untrackedInode.kind = "file" =>
    /\ untrackedPc = "finished"
    /\ untrackedResult = "bug"
    /\ UntrackedCalls = {}
    /\ events = << >>

C25_Witness ==
  /\ untrackedInode.kind = "file"
  /\ untrackedInode.type = "SYMLINK"
  /\ untrackedResult = "bug"

(***************************************************************************)
(* Uploads through the LFS proxy                                           *)
(***************************************************************************)
CountRequests(log, r) == Cardinality({k \in 1..Len(log) : log[k] = r})

\* What a download of oid from the server gives.
Download(server, oid) ==
  IF server = "lfs_proxy" /\ lfs_proxy[oid] # Absent
    THEN lfs_proxy[oid] ELSE lfs_upstream[oid]

\* C22: an object uploaded through the proxy is stored by the proxy and by
\* the upstream and a download from either gives content that hashes to its
\* id; this holds after every debuglfssend to the proxy, whether or not the
\* upstream had the object; the proxy stores only what was uploaded to it,
\* and the upstream is sent each object at most once.
C22_ProxyUpload ==
  /\ \A oid \in Oids :
       /\ CountRequests(log_proxy, Request("PUT", "lfs_proxy", "upload", oid)) > 0
            => /\ lfs_proxy[oid] # Absent
               /\ lfs_upstream[oid] # Absent
               /\ Download("lfs_proxy", oid) = Download("lfs_upstream", oid)
               /\ Sha256(Download("lfs_proxy", oid)) = oid
       /\ lfs_proxy[oid] # Absent
            => CountRequests(log_proxy,
                             Request("PUT", "lfs_proxy", "upload", oid)) = 1
       /\ CountRequests(log_upstream,
                        Request("PUT", "lfs_upstream", "upload", oid)) <= 1
  /\ (command.name = "debuglfssend" /\ command.server = "lfs_proxy")
       => /\ lfs_proxy[command.oid] = command.content
          /\ lfs_upstream[command.oid] = command.content
  /\ command.name = "debuglfsreceive" => Sha256(command.content) = command.oid

C22_Witness ==
  /\ commandCount = 2
  /\ command = [name |-> "debuglfssend", server |-> "lfs_proxy",
                oid |-> "ab02c2a1", content |-> "A"]
  /\ log_proxy = << Batch("lfs_proxy"),
                    Request("PUT", "lfs_proxy", "upload", "ab02c2a1") >>
  /\ log_upstream = << Batch("lfs_upstream"),
                       Request("PUT", "lfs_upstream", "upload", "ab02c2a1"),
                       Batch("lfs_upstream"), Batch("lfs_upstream") >>

====
